---- MODULE Spec2Model ----
(***************************************************************************)
(* cargo-dep-analysis (src/main.rs): declared dependencies of the root     *)
(* package are compared with the identifiers a lexical scan finds in the   *)
(* .rs files under src/, and the dependencies the scan never saw are       *)
(* reported as POTENTIALLY UNUSED.                                         *)
(*                                                                         *)
(* Text is a sequence of one-character strings, so that the regular        *)
(* expressions, split, trim and replace of the program are computed        *)
(* character by character.                                                 *)
(***************************************************************************)
EXTENDS Naturals, Sequences, FiniteSets

(***************************************************************************)
(* Character classes of the patterns.                                      *)
(***************************************************************************)
Lower == {"a", "b", "c", "d", "e", "f", "g", "h", "i", "j", "k", "l", "m",
          "n", "o", "p", "q", "r", "s", "t", "u", "v", "w", "x", "y", "z"}

Upper == {"A", "B", "C", "D", "E", "F", "G", "H", "I", "J", "K", "L", "M",
          "N", "O", "P", "Q", "R", "S", "T", "U", "V", "W", "X", "Y", "Z"}

Digit == {"0", "1", "2", "3", "4", "5", "6", "7", "8", "9"}

\* [a-zA-Z_]
IdStart == Lower \cup Upper \cup {"_"}

\* [a-zA-Z0-9_], which is also \w on the characters of the model
IdChar == IdStart \cup Digit

\* \s, and the characters str::trim removes
Space == {" ", "\n", "\t"}

(***************************************************************************)
(* String primitives.                                                      *)
(***************************************************************************)
\* the text from position i (1-based) to the end
Tail_from(s, i) == SubSeq(s, i, Len(s))

\* the literal lit stands at position i of s
LitAt(s, i, lit) ==
    /\ i >= 1
    /\ i + Len(lit) - 1 <= Len(s)
    /\ SubSeq(s, i, i + Len(lit) - 1) = lit

\* str::starts_with
starts_with(s, lit) == LitAt(s, 1, lit)

\* str::contains
contains(s, lit) == \E i \in 1..(Len(s) + 1) : LitAt(s, i, lit)

\* the first position j >= i whose character is not in class (Len(s)+1 if none):
\* the end of a greedy class* started at i
RECURSIVE SkipClass(_, _, _)
SkipClass(s, i, class) ==
    IF i <= Len(s) /\ s[i] \in class THEN SkipClass(s, i + 1, class) ELSE i

\* the first position j >= i whose character is c (Len(s)+1 if none)
RECURSIVE SkipTo(_, _, _)
SkipTo(s, i, c) ==
    IF i <= Len(s) /\ s[i] # c THEN SkipTo(s, i + 1, c) ELSE i

\* the character at position i is in class
CharIn(s, i, class) == i >= 1 /\ i <= Len(s) /\ s[i] \in class

\* end of the identifier [a-zA-Z_][a-zA-Z0-9_]* starting at i; i itself when
\* no identifier starts there
IdEnd(s, i) == IF CharIn(s, i, IdStart) THEN SkipClass(s, i + 1, IdChar) ELSE i

\* str::replace('-', "_")
underscore_name(name) ==
    [i \in 1..Len(name) |-> IF name[i] = "-" THEN "_" ELSE name[i]]

\* str::trim: whitespace off both ends
RECURSIVE trim_end(_)
trim_end(s) ==
    IF Len(s) > 0 /\ s[Len(s)] \in Space THEN trim_end(SubSeq(s, 1, Len(s) - 1))
    ELSE s

trim(s) == trim_end(Tail_from(s, SkipClass(s, 1, Space)))

\* str::trim_start_matches(pat): the prefix pat removed as often as it occurs
RECURSIVE trim_start_matches(_, _)
trim_start_matches(s, pat) ==
    IF starts_with(s, pat) THEN trim_start_matches(Tail_from(s, Len(pat) + 1), pat)
    ELSE s

\* str::split(','): the pieces between commas, as a set
RECURSIVE split(_, _)
split(s, c) ==
    LET j == SkipTo(s, 1, c)
    IN  IF j > Len(s) THEN {s}
        ELSE {SubSeq(s, 1, j - 1)} \cup split(Tail_from(s, j + 1), c)

(***************************************************************************)
(* The eight patterns.  A match attempt at position i yields the position  *)
(* after the match and the text of capture group 1, or NoMatch.  Every     *)
(* quantified class of these patterns is followed by a character outside   *)
(* the class, so the greedy match is the only one and no backtracking      *)
(* alternative exists.                                                     *)
(***************************************************************************)
NoMatch == [end |-> 0, cap |-> <<>>]

Match(e, c) == [end |-> e, cap |-> c]

kw_use == <<"u", "s", "e">>
kw_as == <<"a", "s">>
kw_extern == <<"e", "x", "t", "e", "r", "n">>
kw_crate == <<"c", "r", "a", "t", "e">>
kw_mod == <<"m", "o", "d">>
kw_derive == <<"#", "[", "d", "e", "r", "i", "v", "e", "(">>
kw_path == <<":", ":">>

\* use\s+([a-zA-Z_][a-zA-Z0-9_]*)\s*::
BasicUseAt(s, i) ==
    LET a == i + 3
        b == SkipClass(s, a, Space)
        c == IdEnd(s, b)
        d == SkipClass(s, c, Space)
    IN  IF LitAt(s, i, kw_use) /\ b > a /\ c > b /\ LitAt(s, d, kw_path)
        THEN Match(d + 2, SubSeq(s, b, c - 1))
        ELSE NoMatch

\* use\s+([a-zA-Z_][a-zA-Z0-9_]*)(?:\s+as\s+[a-zA-Z_][a-zA-Z0-9_]*)?\s*;
QualifiedUseAt(s, i) ==
    LET a == i + 3
        b == SkipClass(s, a, Space)
        c == IdEnd(s, b)
        g1 == SkipClass(s, c, Space)
        g2 == SkipClass(s, g1 + 2, Space)
        g3 == IdEnd(s, g2)
        alias == g1 > c /\ LitAt(s, g1, kw_as) /\ g2 > g1 + 2 /\ g3 > g2
        d == IF alias THEN SkipClass(s, g3, Space) ELSE g1
    IN  IF LitAt(s, i, kw_use) /\ b > a /\ c > b /\ CharIn(s, d, {";"})
        THEN Match(d + 1, SubSeq(s, b, c - 1))
        ELSE NoMatch

\* extern\s+crate\s+([a-zA-Z_][a-zA-Z0-9_]*)
ExternCrateAt(s, i) ==
    LET a == i + 6
        b == SkipClass(s, a, Space)
        c == b + 5
        d == SkipClass(s, c, Space)
        e == IdEnd(s, d)
    IN  IF /\ LitAt(s, i, kw_extern) /\ b > a
           /\ LitAt(s, b, kw_crate) /\ d > c /\ e > d
        THEN Match(e, SubSeq(s, d, e - 1))
        ELSE NoMatch

\* #\[derive\(([^)]*)\)\]
DeriveAt(s, i) ==
    LET a == i + 9
        b == SkipTo(s, a, ")")
    IN  IF LitAt(s, i, kw_derive) /\ LitAt(s, b, <<")", "]">>)
        THEN Match(b + 2, SubSeq(s, a, b - 1))
        ELSE NoMatch

\* ([a-zA-Z_][a-zA-Z0-9_]*)::\w+
CrateRefAt(s, i) ==
    LET c == IdEnd(s, i)
        e == SkipClass(s, c + 2, IdChar)
    IN  IF c > i /\ LitAt(s, c, kw_path) /\ e > c + 2
        THEN Match(e, SubSeq(s, i, c - 1))
        ELSE NoMatch

\* ([a-zA-Z_][a-zA-Z0-9_]*)!\s*[({]
MacroAt(s, i) ==
    LET c == IdEnd(s, i)
        d == SkipClass(s, c + 1, Space)
    IN  IF c > i /\ CharIn(s, c, {"!"}) /\ CharIn(s, d, {"(", "{"})
        THEN Match(d + 1, SubSeq(s, i, c - 1))
        ELSE NoMatch

\* mod\s+([a-zA-Z_][a-zA-Z0-9_]*)\s*;
ModDeclAt(s, i) ==
    LET a == i + 3
        b == SkipClass(s, a, Space)
        c == IdEnd(s, b)
        d == SkipClass(s, c, Space)
    IN  IF LitAt(s, i, kw_mod) /\ b > a /\ c > b /\ CharIn(s, d, {";"})
        THEN Match(d + 1, SubSeq(s, b, c - 1))
        ELSE NoMatch

\* :\s*([a-zA-Z_][a-zA-Z0-9_]*)::
TypeAnnotationAt(s, i) ==
    LET b == SkipClass(s, i + 1, Space)
        c == IdEnd(s, b)
    IN  IF CharIn(s, i, {":"}) /\ c > b /\ LitAt(s, c, kw_path)
        THEN Match(c + 2, SubSeq(s, b, c - 1))
        ELSE NoMatch

\* the patterns array, by index
NumPatterns == 8

patterns == 1..NumPatterns

MatchAt(p, s, i) ==
    CASE p = 1 -> BasicUseAt(s, i)
      [] p = 2 -> QualifiedUseAt(s, i)
      [] p = 3 -> ExternCrateAt(s, i)
      [] p = 4 -> DeriveAt(s, i)
      [] p = 5 -> CrateRefAt(s, i)
      [] p = 6 -> MacroAt(s, i)
      [] p = 7 -> ModDeclAt(s, i)
      [] OTHER -> TypeAnnotationAt(s, i)

\* Regex::captures_iter: the leftmost match from position i on, then the
\* search resumes where that match ended (matches do not overlap); the set
\* of the texts of group 1
RECURSIVE captures_iter(_, _, _)
captures_iter(p, s, i) ==
    IF i > Len(s) THEN {}
    ELSE LET m == MatchAt(p, s, i)
         IN  IF m.end > 0 THEN {m.cap} \cup captures_iter(p, s, m.end)
             ELSE captures_iter(p, s, i + 1)

(***************************************************************************)
(* scan_for_usage.                                                         *)
(***************************************************************************)
pre_crate == <<"c", "r", "a", "t", "e", ":", ":">>
pre_self == <<"s", "e", "l", "f", ":", ":">>
kw_super == <<"s", "u", "p", "e", "r">>

\* name.trim().trim_start_matches("crate::").trim_start_matches("self::")
\*     .trim_start_matches("::")
clean_name(name) ==
    trim_start_matches(
        trim_start_matches(trim_start_matches(trim(name), pre_crate), pre_self),
        kw_path)

\* is_candidate without the test for "crate"
is_candidate_without_crate(clean) ==
    /\ clean # <<>>
    /\ ~starts_with(clean, kw_super)

\* the condition under which a cleaned token is inserted
is_candidate(clean) ==
    /\ clean # <<>>
    /\ ~starts_with(clean, kw_super)
    /\ ~starts_with(clean, kw_crate)

\* the name a surviving token is inserted under
resolve(clean, name_map) ==
    IF clean \in DOMAIN name_map THEN name_map[clean] ELSE clean

\* every piece of every capture of every pattern
captured_names(content) ==
    UNION {split(cap, ",") :
             cap \in UNION {captures_iter(p, content, 1) : p \in patterns}}

\* the cleaned tokens of a text that pass the test
candidates(content) ==
    {c \in {clean_name(n) : n \in captured_names(content)} : is_candidate(c)}

\* the macro-only crates
macro_crates == {<<"a", "n", "y", "h", "o", "w">>,
                 <<"t", "h", "i", "s", "e", "r", "r", "o", "r">>,
                 <<"l", "a", "z", "y", "_", "s", "t", "a", "t", "i", "c">>,
                 <<"s", "e", "r", "d", "e">>}

\* macro_hit without the test for "<name>!"
macro_hit_use_only(content, macro_crate) ==
    contains(content, <<"u", "s", "e", " ">> \o macro_crate \o kw_path)

\* content.contains("{}!") || content.contains("use {}::")
macro_hit(content, macro_crate) ==
    \/ contains(content, macro_crate \o <<"!">>)
    \/ contains(content, <<"u", "s", "e", " ">> \o macro_crate \o kw_path)

\* what the special case for the macro-only crates inserts
macro_inserts(content) == {mc \in macro_crates : macro_hit(content, mc)}

(***************************************************************************)
(* The inputs: the dependencies of the root package, in the order of the   *)
(* manifest metadata, and the entries under src/.                          *)
(***************************************************************************)
MaxDeps == 2
MaxFiles == 2

DepPool ==
    {[name |-> <<"f", "o", "o">>, req |-> "^1.0", features |-> <<>>],
     [name |-> <<"f", "o", "o", "-", "b", "a", "r">>, req |-> "^0.3",
      features |-> <<"std">>],
     [name |-> <<"f", "o", "o", "_", "b", "a", "r">>, req |-> "^0.4",
      features |-> <<>>],
     [name |-> <<"s", "u", "p", "e", "r", "b">>, req |-> "^2.1",
      features |-> <<>>],
     [name |-> <<"s", "u", "p", "e", "r", "-", "b">>, req |-> "^0.1",
      features |-> <<>>],
     [name |-> <<"s", "e", "r", "d", "e">>, req |-> "^1.0",
      features |-> <<"derive", "std">>]}

\* use foo::bar;
text_a == <<"u", "s", "e", " ", "f", "o", "o", ":", ":", "b", "a", "r", ";">>

\* use foo_bar::x;
text_b == <<"u", "s", "e", " ", "f", "o", "o", "_", "b", "a", "r", ":", ":",
            "x", ";">>

\* use superb::bar;
\* use super_b::x;
text_c == <<"u", "s", "e", " ", "s", "u", "p", "e", "r", "b", ":", ":", "b",
            "a", "r", ";", "\n", "u", "s", "e", " ", "s", "u", "p", "e", "r",
            "_", "b", ":", ":", "x", ";">>

\* #[derive(A, ::crate::B, self::C,)]
\* use super::x;
text_d == <<"#", "[", "d", "e", "r", "i", "v", "e", "(", "A", ",", " ", ":",
            ":", "c", "r", "a", "t", "e", ":", ":", "B", ",", " ", "s", "e",
            "l", "f", ":", ":", "C", ",", ")", "]", "\n", "u", "s", "e", " ",
            "s", "u", "p", "e", "r", ":", ":", "x", ";">>

\* extern crate foo_bar;
\* mod m;
\* use foo as f;
\* fn g(e: foo::E) { anyhow!(e); serde![0] }
text_f == <<"e", "x", "t", "e", "r", "n", " ", "c", "r", "a", "t", "e", " ",
            "f", "o", "o", "_", "b", "a", "r", ";", "\n", "m", "o", "d", " ",
            "m", ";", "\n", "u", "s", "e", " ", "f", "o", "o", " ", "a", "s",
            " ", "f", ";", "\n", "f", "n", " ", "g", "(", "e", ":", " ", "f",
            "o", "o", ":", ":", "E", ")", " ", "{", " ", "a", "n", "y", "h",
            "o", "w", "!", "(", "e", ")", ";", " ", "s", "e", "r", "d", "e",
            "!", "[", "0", "]", " ", "}">>

FilePool ==
    {[path |-> "src/a.rs", ext |-> "rs", content |-> text_a],
     [path |-> "src/b.rs", ext |-> "rs", content |-> text_b],
     [path |-> "src/c.rs", ext |-> "rs", content |-> text_c],
     [path |-> "src/d.rs", ext |-> "rs", content |-> text_d],
     [path |-> "src/f.rs", ext |-> "rs", content |-> text_f],
     [path |-> "src/notes.txt", ext |-> "txt", content |-> text_a]}

\* candidates of the texts of the pool, computed once
candidate_table ==
    [content \in {f.content : f \in FilePool} |-> candidates(content)]

\* macro_inserts of the texts of the pool, computed once
macro_table ==
    [content \in {f.content : f \in FilePool} |-> macro_inserts(content)]

\* what the loop over the patterns inserts
pattern_inserts(content, name_map) ==
    {resolve(clean, name_map) : clean \in candidate_table[content]}

\* scan_for_usage that stops looking once the set holds a name
scan_until_found(content, used, name_map) ==
    IF used # {} THEN used
    ELSE pattern_inserts(content, name_map) \cup macro_table[content]

\* scan_for_usage that starts from an empty set for every file
scan_into_fresh_set(content, used, name_map) ==
    pattern_inserts(content, name_map) \cup macro_table[content]

\* the set used_crates after scan_for_usage(content, used_crates, name_mappings)
scan_for_usage(content, used, name_map) ==
    used \cup pattern_inserts(content, name_map) \cup macro_table[content]

\* the dependency lists: up to MaxDeps dependencies with distinct names
DepLists ==
    UNION {{s \in [1..n -> DepPool] :
              \A i, j \in 1..n : i # j => s[i].name # s[j].name} :
           n \in 0..MaxDeps}

\* the source trees: up to MaxFiles entries
Trees == {t \in SUBSET FilePool : Cardinality(t) <= MaxFiles}

(***************************************************************************)
(* main.                                                                   *)
(***************************************************************************)
VARIABLES
    dependencies,   \* package.dependencies
    tree,           \* the entries WalkDir::new("src") yields
    pc,             \* where main is
    run,            \* 1: first run over the inputs, 2: second run
    deps,           \* HashMap: name -> DependencyInfo
    name_mappings,  \* HashMap: underscore name -> name
    used_crates,    \* HashSet of names
    walk,           \* the entries WalkDir has not yielded yet
    first_scanned,  \* path of the first file scanned ("" before)
    pending,        \* the keys `for (name, info) in deps` has not reached yet
    output,         \* the lines printed to standard output
    prev_used,      \* used_crates at the end of the first run
    prev_output,    \* output of the first run
    prev_first      \* first_scanned of the first run

vars == <<dependencies, tree, pc, run, deps, name_mappings, used_crates, walk,
          first_scanned, pending, output, prev_used, prev_output, prev_first>>

inputs == <<dependencies, tree>>
previous == <<prev_used, prev_output, prev_first>>

\* HashMap::new()
EmptyMap == <<>>

\* HashMap::insert: an existing value under the key is replaced
insert(map, key, value) ==
    [k \in DOMAIN map \cup {key} |-> IF k = key THEN value ELSE map[k]]

analyze_dependency(dep) == [version |-> dep.req, features |-> dep.features]

\* name_mappings after the loop over the first n dependencies
RECURSIVE collect_mappings(_, _)
collect_mappings(list, n) ==
    IF n = 0 THEN EmptyMap
    ELSE insert(collect_mappings(list, n - 1),
                underscore_name(list[n].name), list[n].name)

\* deps after the loop over the first n dependencies
RECURSIVE collect_deps(_, _)
collect_deps(list, n) ==
    IF n = 0 THEN EmptyMap
    ELSE insert(collect_deps(list, n - 1),
                list[n].name, analyze_dependency(list[n]))

\* is_used without the test of the underscore form
is_used_canonical_only(name, used) == name \in used

\* the test that makes the report loop `continue`
is_used(name, used) == name \in used \/ underscore_name(name) \in used

Line(fmt, name, args) == [fmt |-> fmt, name |-> name, args |-> args]

header == <<Line("\nDependency Analysis Report:", <<>>, <<>>),
            Line("==========================", <<>>, <<>>)>>

\* the first line starts with the warning sign U+26A0 U+FE0F, written (!) here
hints == <<Line("(!)  This dependency might be removable. Verify:", <<>>, <<>>),
           Line("  1. Check for macro usage", <<>>, <<>>),
           Line("  2. Look for #[derive(...)] usage", <<>>, <<>>),
           Line("  3. Review build.rs dependencies", <<>>, <<>>),
           Line("  4. Check conditional compilation flags", <<>>, <<>>)>>

\* the lines printed for a dependency that is not used
entry(name, info) ==
    <<Line("\n{} ({})", name, <<"POTENTIALLY UNUSED">>),
      Line("Version: {}", <<>>, <<info.version>>),
      Line("Feature flags: {:?}", <<>>, info.features)>> \o hints

Init ==
    /\ dependencies \in DepLists
    /\ tree \in Trees
    /\ pc = "metadata"
    /\ run = 1
    /\ deps = EmptyMap
    /\ name_mappings = EmptyMap
    /\ used_crates = {}
    /\ walk = tree
    /\ first_scanned = ""
    /\ pending = {}
    /\ output = <<>>
    /\ prev_used = {}
    /\ prev_output = <<>>
    /\ prev_first = ""

\* Fail that prints the header before it gives up
Fail_after_header ==
    /\ pc' = "failed"
    /\ output' = header
    /\ UNCHANGED <<inputs, run, deps, name_mappings, used_crates, walk,
                   first_scanned, pending, previous>>

\* the run ends with an error (Err from main, or a panic)
Fail ==
    /\ pc' = "failed"
    /\ UNCHANGED <<inputs, run, deps, name_mappings, used_crates, walk,
                   first_scanned, pending, output, previous>>

\* MetadataCommand::new().exec()? succeeds
MetadataExec ==
    /\ pc = "metadata"
    /\ pc' = "root"
    /\ UNCHANGED <<inputs, run, deps, name_mappings, used_crates, walk,
                   first_scanned, pending, output, previous>>

\* MetadataCommand::new().exec()? fails
MetadataError == pc = "metadata" /\ Fail

\* metadata.root_package().unwrap() on Some
RootPackage ==
    /\ pc = "root"
    /\ pc' = "collect"
    /\ UNCHANGED <<inputs, run, deps, name_mappings, used_crates, walk,
                   first_scanned, pending, output, previous>>

\* metadata.root_package().unwrap() on None
RootPackageNone == pc = "root" /\ Fail

\* the loop over package.dependencies
CollectDependencies ==
    /\ pc = "collect"
    /\ name_mappings' = collect_mappings(dependencies, Len(dependencies))
    /\ deps' = collect_deps(dependencies, Len(dependencies))
    /\ used_crates' = {}
    /\ pc' = "scan"
    /\ UNCHANGED <<inputs, run, walk, first_scanned, pending, output, previous>>

\* WalkDir yields an error
WalkError == pc = "scan" /\ walk # {} /\ Fail

\* WalkDir yields an entry whose extension is not rs
SkipEntry ==
    /\ pc = "scan"
    /\ \E e \in walk :
         /\ e.ext # "rs"
         /\ walk' = walk \ {e}
    /\ UNCHANGED <<inputs, pc, run, deps, name_mappings, used_crates,
                   first_scanned, pending, output, previous>>

\* WalkDir yields an .rs entry and read_to_string fails
ReadError == pc = "scan" /\ (\E e \in walk : e.ext = "rs") /\ Fail

\* WalkDir yields an .rs entry, which is read and scanned
ScanFile ==
    /\ pc = "scan"
    /\ \E e \in walk :
         /\ e.ext = "rs"
         /\ walk' = walk \ {e}
         /\ used_crates' = scan_for_usage(e.content, used_crates, name_mappings)
         /\ first_scanned' = IF first_scanned = "" THEN e.path ELSE first_scanned
    /\ UNCHANGED <<inputs, pc, run, deps, name_mappings, pending, output,
                   previous>>

\* the walk is over: the two header lines, and the report loop starts
PrintHeader ==
    /\ pc = "scan"
    /\ walk = {}
    /\ output' = header
    /\ pending' = DOMAIN deps
    /\ pc' = "report"
    /\ UNCHANGED <<inputs, run, deps, name_mappings, used_crates, walk,
                   first_scanned, previous>>

\* one iteration of `for (name, info) in deps`; a HashMap yields its entries
\* in an order that differs from one process to the next
ReportDependency ==
    /\ pc = "report"
    /\ \E name \in pending :
         /\ pending' = pending \ {name}
         /\ output' = IF is_used(name, used_crates) THEN output
                      ELSE output \o entry(name, deps[name])
    /\ UNCHANGED <<inputs, pc, run, deps, name_mappings, used_crates, walk,
                   first_scanned, previous>>

\* Ok(())
Finish ==
    /\ pc = "report"
    /\ pending = {}
    /\ pc' = "done"
    /\ UNCHANGED <<inputs, run, deps, name_mappings, used_crates, walk,
                   first_scanned, pending, output, previous>>

\* the program is run again over the same manifest and the same tree
Rerun ==
    /\ pc = "done"
    /\ run = 1
    /\ run' = 2
    /\ prev_used' = used_crates
    /\ prev_output' = output
    /\ prev_first' = first_scanned
    /\ pc' = "metadata"
    /\ deps' = EmptyMap
    /\ name_mappings' = EmptyMap
    /\ used_crates' = {}
    /\ walk' = tree
    /\ first_scanned' = ""
    /\ pending' = {}
    /\ output' = <<>>
    /\ UNCHANGED inputs

Next ==
    \/ MetadataExec
    \/ MetadataError
    \/ RootPackage
    \/ RootPackageNone
    \/ CollectDependencies
    \/ WalkError
    \/ SkipEntry
    \/ ReadError
    \/ ScanFile
    \/ PrintHeader
    \/ ReportDependency
    \/ Finish
    \/ Rerun

Spec == Init /\ [][Next]_vars

(***************************************************************************)
(* Vocabulary of the properties.                                           *)
(***************************************************************************)
\* the .rs files read and scanned so far in this run
Scanned == {f \in tree \ walk : f.ext = "rs"}

\* the declared dependencies
Declared == {dependencies[i] : i \in 1..Len(dependencies)}

\* the collection phase is over and succeeded
Collected == pc \in {"report", "done"}

\* the positions of the output at which an entry for name starts
EntryStarts(out, name) ==
    {k \in 1..Len(out) : out[k].fmt = "\n{} ({})" /\ out[k].name = name}

\* the names that have an entry in the output
Flagged(out) ==
    {out[k].name : k \in {j \in 1..Len(out) : out[j].fmt = "\n{} ({})"}}

\* the eight lines the report format prescribes for dependency d
ExpectedEntry(d) ==
    <<[fmt |-> "\n{} ({})", name |-> d.name, args |-> <<"POTENTIALLY UNUSED">>],
      [fmt |-> "Version: {}", name |-> <<>>, args |-> <<d.req>>],
      [fmt |-> "Feature flags: {:?}", name |-> <<>>, args |-> d.features],
      [fmt |-> "(!)  This dependency might be removable. Verify:",
       name |-> <<>>, args |-> <<>>],
      [fmt |-> "  1. Check for macro usage", name |-> <<>>, args |-> <<>>],
      [fmt |-> "  2. Look for #[derive(...)] usage", name |-> <<>>,
       args |-> <<>>],
      [fmt |-> "  3. Review build.rs dependencies", name |-> <<>>,
       args |-> <<>>],
      [fmt |-> "  4. Check conditional compilation flags", name |-> <<>>,
       args |-> <<>>]>>

\* the text has the literal lit somewhere
Occurs(text, lit) ==
    \E i \in 1..Len(text) :
        /\ i + Len(lit) - 1 <= Len(text)
        /\ \A k \in 1..Len(lit) : text[i + k - 1] = lit[k]

\* `use <id>::<item>;` for the items the texts of the pool import
UseStatement(id, item) ==
    <<"u", "s", "e", " ">> \o id \o <<":", ":">> \o item \o <<";">>

UseItems == {<<"b", "a", "r">>, <<"x">>}

\* per text of the pool, the identifiers it imports with `use <id>::<item>;`
uses_table ==
    [content \in {f.content : f \in FilePool} |->
       {id \in {underscore_name(d.name) : d \in DepPool} :
          \E item \in UseItems : Occurs(content, UseStatement(id, item))}]

\* per text of the pool, the allowlist names with "<name>!" or "use <name>::"
hits_table ==
    [content \in {f.content : f \in FilePool} |->
       {mc \in macro_crates :
          \/ Occurs(content, mc \o <<"!">>)
          \/ Occurs(content, <<"u", "s", "e", " ">> \o mc \o <<":", ":">>)}]

\* a string that is empty or begins with "super" or "crate"
Reserved(s) ==
    \/ Len(s) = 0
    \/ /\ Len(s) >= 5
       /\ SubSeq(s, 1, 5) \in {<<"s", "u", "p", "e", "r">>,
                               <<"c", "r", "a", "t", "e">>}

\* per text of the pool, the cleaned tokens that are empty or reserved
reserved_table ==
    [content \in {f.content : f \in FilePool} |->
       {c \in {clean_name(n) : n \in captured_names(content)} : Reserved(c)}]

\* [a-zA-Z_][a-zA-Z0-9_]*
IdentifierShaped(name) ==
    /\ Len(name) > 0
    /\ name[1] \in IdStart
    /\ \A i \in 1..Len(name) : name[i] \in IdChar

(***************************************************************************)
(* C1: after a successful collection pass the report has, for every        *)
(* declared dependency, exactly one entry (name with the POTENTIALLY       *)
(* UNUSED marker, version, feature flags, the four hints) if neither its   *)
(* name nor the underscore form of its name is in used_crates, and no      *)
(* entry otherwise; the report holds nothing else but the header.          *)
(***************************************************************************)
C1_ReportListsExactlyTheUnused ==
    pc = "done" =>
      /\ SubSeq(output, 1, 2) = header
      /\ Flagged(output) \subseteq {d.name : d \in Declared}
      /\ \A d \in Declared :
           LET starts == EntryStarts(output, d.name)
           IN  IF d.name \notin used_crates
                  /\ underscore_name(d.name) \notin used_crates
               THEN /\ Cardinality(starts) = 1
                    /\ \A k \in starts :
                         /\ k + 7 <= Len(output)
                         /\ SubSeq(output, k, k + 7) = ExpectedEntry(d)
               ELSE starts = {}

\* a finished run over two scanned files with one dependency reported and
\* one omitted
C1_Witness ==
    /\ pc = "done"
    /\ Cardinality(Scanned) >= 2
    /\ \E d \in Declared : EntryStarts(output, d.name) # {}
    /\ \E d \in Declared :
         /\ EntryStarts(output, d.name) = {}
         /\ underscore_name(d.name) \in used_crates

(***************************************************************************)
(* C2: for every declared dependency with an identifier-shaped name foo,   *)
(* once a text with `use foo::bar;` has been scanned, foo is in            *)
(* used_crates and the report has no entry for foo.                        *)
(***************************************************************************)
C2_UseMarksDependencyUsed ==
    \A d \in Declared : \A f \in Scanned :
        (IdentifierShaped(d.name) /\ d.name \in uses_table[f.content]) =>
            /\ d.name \in used_crates
            /\ pc = "done" => EntryStarts(output, d.name) = {}

(***************************************************************************)
(* C3: for every declared dependency whose name contains '-', once a text  *)
(* with a `use` of the underscore form of the name has been scanned, the   *)
(* canonical name is in used_crates and the report has no entry for the    *)
(* dependency.                                                             *)
(***************************************************************************)
C3_UnderscoreUseMarksHyphenatedUsed ==
    \A d \in Declared : \A f \in Scanned :
        (/\ \E i \in 1..Len(d.name) : d.name[i] = "-"
         /\ underscore_name(d.name) \in uses_table[f.content]) =>
            /\ d.name \in used_crates
            /\ pc = "done" => EntryStarts(output, d.name) = {}

(***************************************************************************)
(* C4: nothing of the report, header included, is printed before the       *)
(* collection phase has completed successfully; a run that fails has       *)
(* printed nothing.                                                        *)
(***************************************************************************)
C4_NoReportBeforeCollection == output # <<>> => Collected

\* a run that failed after it had scanned a file and found a name
C4_Witness ==
    /\ pc = "failed"
    /\ Scanned # {}
    /\ used_crates # {}
    /\ output = <<>>

(***************************************************************************)
(* C5: two runs over the same manifest and the same source tree end with   *)
(* the same used_crates and the same report, line for line.                *)
(***************************************************************************)
C5_RunsIdentical ==
    (run = 2 /\ pc = "done") =>
        /\ used_crates = prev_used
        /\ output = prev_output

(***************************************************************************)
(* C6: the final used_crates, and with it the set of flagged               *)
(* dependencies, does not depend on the order in which the files are       *)
(* visited: a second run that visits them in any order ends the scan with  *)
(* the set of the first.                                                   *)
(***************************************************************************)
C6_ScanOrderIrrelevant ==
    (run = 2 /\ Collected) =>
        /\ used_crates = prev_used
        /\ pc = "done" => Flagged(output) = Flagged(prev_output)

\* two finished runs that began with different files and found something
C6_Witness ==
    /\ run = 2
    /\ pc = "done"
    /\ first_scanned # prev_first
    /\ Cardinality(Scanned) >= 2
    /\ \E f, g \in Scanned :
         candidate_table[f.content] # candidate_table[g.content]
    /\ used_crates # {}

(***************************************************************************)
(* C7: an allowlist name is in used_crates as soon as a scanned text has   *)
(* "<name>!" or "use <name>::" in it, whatever the general patterns        *)
(* matched and whether or not the name is declared; an allowlist name is   *)
(* in used_crates only by such a hit or by an insertion of the general     *)
(* patterns.                                                               *)
(***************************************************************************)
C7_MacroFallback ==
    \A mc \in macro_crates :
        /\ (\E f \in Scanned : mc \in hits_table[f.content])
              => mc \in used_crates
        /\ mc \in used_crates =>
              \E f \in Scanned :
                  \/ mc \in hits_table[f.content]
                  \/ \E c \in candidate_table[f.content] :
                        resolve(c, name_mappings) = mc

\* a hit for an undeclared allowlist name that no general pattern captured
C7_Witness ==
    \E mc \in macro_crates :
        /\ \E f \in Scanned : mc \in hits_table[f.content]
        /\ \A f \in Scanned : mc \notin candidate_table[f.content]
        /\ mc \notin {d.name : d \in Declared}
        /\ mc \in used_crates

(***************************************************************************)
(* C8: once name_mappings is built, every declared dependency has exactly  *)
(* one entry in it, from the underscore form of its name to its name.      *)
(***************************************************************************)
C8_EveryDependencyMapped ==
    pc \in {"scan", "report", "done"} =>
        /\ \A d \in Declared :
             /\ underscore_name(d.name) \in DOMAIN name_mappings
             /\ name_mappings[underscore_name(d.name)] = d.name
        /\ Cardinality(DOMAIN name_mappings) = Cardinality(Declared)

(***************************************************************************)
(* C9: within a run, every step of the scan phase leaves the elements of   *)
(* used_crates in it and leaves name_mappings, deps and the dependency     *)
(* list as they are; no step changes used_crates once reporting has        *)
(* begun.                                                                  *)
(***************************************************************************)
C9_Step ==
    run' = run =>
        /\ pc = "scan" =>
             /\ used_crates \subseteq used_crates'
             /\ name_mappings' = name_mappings
             /\ deps' = deps
             /\ dependencies' = dependencies
        /\ Collected => used_crates' = used_crates

C9_UsedOnlyGrows == [][C9_Step]_vars

\* the report has begun after two scans that left several names
C9_Witness ==
    /\ pc = "report"
    /\ Cardinality(Scanned) >= 2
    /\ Cardinality(used_crates) >= 2
    /\ \E f \in Scanned :
         ~(used_crates \subseteq
             scan_for_usage(f.content, {}, name_mappings))

(***************************************************************************)
(* C10: used_crates never holds the empty string nor a string that begins  *)
(* with "super" or "crate".                                                *)
(***************************************************************************)
C10_NoReservedName == \A s \in used_crates : ~Reserved(s)

\* a scanned text had an empty token, and tokens beginning with "super"
\* and with "crate"
C10_Witness ==
    \E f \in Scanned :
        /\ <<>> \in reserved_table[f.content]
        /\ \E c \in reserved_table[f.content] :
              Len(c) > 0 /\ c[1] = "s"
        /\ \E c \in reserved_table[f.content] :
              Len(c) > 0 /\ c[1] = "c"
        /\ used_crates # {}

====
